---- MODULE Spec2Model ----
(***************************************************************************)
(* A model of src/src/client/app/index.jsx: the hand-rolled Redux-style    *)
(* store (validateAction, applyMiddleware, createStore), the provided      *)
(* middlewares, the connect() binding layer and the notes reducer.         *)
(*                                                                         *)
(* JavaScript runs every call to completion on one thread, so each call    *)
(* of the store's API (createStore, dispatch, subscribe, an unsubscribe    *)
(* closure, a component lifecycle hook) is one action.  What happens       *)
(* inside a call, and in which order, is recorded in the store's `trace`,  *)
(* which is emptied at the start of every call.                            *)
(***************************************************************************)
EXTENDS Integers, Sequences, FiniteSets, TLC

VARIABLE stores
vars == <<stores>>

(***************************************************************************)
(* Bounds of the model.                                                    *)
(***************************************************************************)
MaxSubscribes == 2     \* subscribe() calls made on one store
MaxThunkLen == 2       \* dispatches made by one dispatched function

(***************************************************************************)
(* JavaScript values.                                                      *)
(***************************************************************************)
Undefined == "undefined"
Null == "null"
UndefinedState == [undefined |-> TRUE]

Range(f) == {f[x] : x \in DOMAIN f}

\* Body(v), with v evaluated once
Let(v, Body(_)) == CHOOSE out \in {Body(x) : x \in {v}} : TRUE

SeqsUpTo(S, n) == UNION {[1..k -> S] : k \in 0..n}

\* Our action types
CREATE_NOTE == "CREATE_NOTE"
UPDATE_NOTE == "UPDATE_NOTE"
OPEN_NOTE == "OPEN_NOTE"
CLOSE_NOTE == "CLOSE_NOTE"
INIT == "@@redux/INIT"

Obj(type, payload) == [kind |-> "object", type |-> type, payload |-> payload]
NoPayload == [has |-> FALSE, id |-> Undefined, content |-> Undefined]
Payload(id, content) == [has |-> TRUE, id |-> id, content |-> content]

\* typeof value
TypeOf(v) ==
    CASE v.kind \in {"object", "null", "array"} -> "object"
      [] OTHER -> v.kind

\* !value
Falsy(v) ==
    \/ v.kind \in {"null", "undefined"}
    \/ v.kind \in {"number", "string"} /\ v.falsy

IsArray(v) == v.kind = "array"

\* value.type and value.payload of a value that is not null or undefined
TypeProp(v) == IF v.kind = "object" THEN v.type ELSE Undefined
PayloadProp(v) == IF v.kind = "object" THEN v.payload ELSE NoPayload

\* reading a property of null or undefined raises a TypeError
Nullish(v) == v.kind \in {"null", "undefined"}

\* the property key a value is converted to
ToKey(id) == id

(***************************************************************************)
(* validateAction: TRUE when it throws.                                    *)
(***************************************************************************)
validateAction(action) ==
    Falsy(action) \/ TypeOf(action) # "object" \/ IsArray(action)

(***************************************************************************)
(* The reducer.  It returns [threw |-> TRUE] when evaluating it raises,    *)
(* and the next state otherwise.                                           *)
(***************************************************************************)
initialState == [isLoading |-> FALSE, openNoteId |-> Null, notes |-> <<>>]

Threw == [threw |-> TRUE]
Value(s) == [threw |-> FALSE, state |-> s]

\* {...notes, [key]: note}
WithNote_dropsOthers(notes, key, note) == [k \in {key} |-> note]

WithNote(notes, key, note) ==
    [k \in DOMAIN notes \cup {key} |-> IF k = key THEN note ELSE notes[k]]

\* {...notes[id], content}
EditedNote(notes, id, content) ==
    IF ToKey(id) \in DOMAIN notes
    THEN [notes[ToKey(id)] EXCEPT !.content = content]
    ELSE [id |-> Undefined, content |-> content]

reducer_defaultResets(prior, action) ==
    LET state == IF prior = UndefinedState THEN initialState ELSE prior
        payload == PayloadProp(action)
    IN  IF Nullish(action) THEN Threw
        ELSE CASE TypeProp(action) = CREATE_NOTE ->
                    IF ~payload.has THEN Threw
                    ELSE IF payload.id \in {Undefined, Null, ""}
                    THEN Value([state EXCEPT !.isLoading = TRUE])
                    ELSE Value([state EXCEPT
                            !.isLoading = FALSE,
                            !.openNoteId = payload.id,
                            !.notes = WithNote(@, ToKey(payload.id),
                                        [id |-> payload.id, content |-> ""])])
               [] TypeProp(action) = UPDATE_NOTE ->
                    IF ~payload.has THEN Threw
                    ELSE Value([state EXCEPT
                            !.notes = WithNote(@, ToKey(payload.id),
                                        EditedNote(@, payload.id, payload.content))])
               [] TypeProp(action) = OPEN_NOTE ->
                    IF ~payload.has THEN Threw
                    ELSE Value([state EXCEPT !.openNoteId = payload.id])
               [] TypeProp(action) = CLOSE_NOTE ->
                    Value([state EXCEPT !.openNoteId = Null])
               [] OTHER -> Value(initialState)

reducer(prior, action) ==
    LET state == IF prior = UndefinedState THEN initialState ELSE prior
        payload == PayloadProp(action)
    IN  IF Nullish(action) THEN Threw
        ELSE CASE TypeProp(action) = CREATE_NOTE ->
                    IF ~payload.has THEN Threw
                    ELSE IF payload.id \in {Undefined, Null, ""}
                    THEN Value([state EXCEPT !.isLoading = TRUE])
                    ELSE Value([state EXCEPT
                            !.isLoading = FALSE,
                            !.openNoteId = payload.id,
                            !.notes = WithNote(@, ToKey(payload.id),
                                        [id |-> payload.id, content |-> ""])])
               [] TypeProp(action) = UPDATE_NOTE ->
                    IF ~payload.has THEN Threw
                    ELSE Value([state EXCEPT
                            !.notes = WithNote(@, ToKey(payload.id),
                                        EditedNote(@, payload.id, payload.content))])
               [] TypeProp(action) = OPEN_NOTE ->
                    IF ~payload.has THEN Threw
                    ELSE Value([state EXCEPT !.openNoteId = payload.id])
               [] TypeProp(action) = CLOSE_NOTE ->
                    Value([state EXCEPT !.openNoteId = Null])
               [] OTHER -> Value(state)

(***************************************************************************)
(* The store: the closure state of one createStore call, the Connected     *)
(* instances bound to it, and the record of its last API call.             *)
(*   middleware   createStore's second argument                            *)
(*   state, subscribers, dispatch   `state`, `subscribers`, store.dispatch *)
(*   unsubs       per handler, the unsubscribe closures subscribe returned *)
(*                and how many of them have been called                    *)
(*   comps        the Connected instances reading this store from context  *)
(*   call, pre, trace, result   the last call, the state before it, what   *)
(*                happened inside it, and how it ended                     *)
(***************************************************************************)
Listeners == {"h1", "h2"}          \* plain handlers passed to subscribe
Comps == {"c1", "c2"}              \* Connected instances
\* handlers that use the store while they run: one calls its own
\* unsubscribe function, one calls the unsubscribe function of h1, one
\* subscribes hNew the first time it runs, one dispatches CLOSE_NOTE while a
\* note is open
Actors == {"hUnsubSelf", "hUnsubOther", "hSubscribe", "hDispatch"}
\* an instance of connect(openNoteToProps, mapDispatchToProps)(Component)
Selective == {"cOpen"}
Connecteds == Comps \cup Selective
Handlers == Listeners \cup Connecteds \cup Actors \cup {"hNew"}

NoMiddleware == [given |-> FALSE, list |-> <<>>]
Applied(list) == [given |-> TRUE, list |-> list]

Emit(s, e) == [s EXCEPT !.trace = Append(@, e)]
Return(s, v) == [s EXCEPT !.result = [kind |-> "return", value |-> v]]
Throw(s, e) == [s EXCEPT !.result = [kind |-> "throw", value |-> e]]
Thrown(s) == s.result.kind = "throw"

\* The start of an API call.
Begin(s, call) ==
    [s EXCEPT !.call = call, !.pre = s.state, !.preSubscribers = s.subscribers,
              !.trace = <<>>, !.passes = <<>>,
              !.result = [kind |-> "return", value |-> Undefined]]

(***************************************************************************)
(* connect(): Connected.onStoreOrPropsChange with the application's        *)
(* mapStateToProps and mapDispatchToProps.  setState merges the given      *)
(* keys into the instance's state.                                         *)
(***************************************************************************)
mapStateToProps(state, props) ==
    [notes |-> state.notes, openNoteId |-> state.openNoteId]

\* a mapStateToProps whose keys depend on the state:
\* state => state.openNoteId ? {openNoteId: state.openNoteId} : {}
openNoteToProps(state, props) ==
    IF state.openNoteId = Null THEN <<>>
    ELSE [openNoteId |-> state.openNoteId]

\* the first argument given to connect() for this instance
StateToProps(c, state, props) ==
    IF c \in Selective THEN openNoteToProps(state, props)
    ELSE mapStateToProps(state, props)

mapDispatchToProps(dispatch, props) ==
    [onAddNote |-> "onAddNote", onChangeNote |-> "onChangeNote",
     onOpenNote |-> "onOpenNote", onCloseNote |-> "onCloseNote"]

\* {...a, ...b}
Merge(a, b) ==
    [k \in DOMAIN a \cup DOMAIN b |-> IF k \in DOMAIN b THEN b[k] ELSE a[k]]

\* React ignores setState on an instance that has been unmounted
setState(s, c, partial) ==
    IF s.comps[c].phase = "unmounted" THEN s
    ELSE [s EXCEPT !.comps[c].state = Merge(@, partial)]

onStoreOrPropsChange(s, c, props) ==
    LET stateProps == StateToProps(c, s.state, props)
        dispatchProps == mapDispatchToProps(s.dispatch, props)
    IN  setState(Emit(s, [ev |-> "recompute", who |-> c, st |-> s.state]),
                 c, Merge(stateProps, dispatchProps))

(***************************************************************************)
(* coreDispatch and the notification pass.                                 *)
(***************************************************************************)
\* subscribers.indexOf(handler), counted from 0; -1 when absent
IndexOf(list, x) ==
    IF \E i \in DOMAIN list : list[i] = x
    THEN (CHOOSE i \in DOMAIN list :
            list[i] = x /\ \A j \in 1..(i - 1) : list[j] # x) - 1
    ELSE -1

\* subscribers.splice(index, 1)
Splice(list, index) ==
    [i \in 1..(Len(list) - 1) |-> IF i <= index THEN list[i] ELSE list[i + 1]]

\* subscribers.push(handler)
pushSubscriber(s, handler) ==
    [s EXCEPT !.subscribers = Append(@, handler),
              !.unsubs[handler].issued = @ + 1]

\* const index = subscribers.indexOf(handler);
\* if (index > 0) subscribers.splice(index, 1)
removeSubscriber(s, handler) ==
    LET index == IndexOf(s.subscribers, handler)
    IN  IF index > 0 THEN [s EXCEPT !.subscribers = Splice(@, index)] ELSE s

RECURSIVE callDispatch(_, _, _)

\* handler(): a plain listener only runs; a Connected instance recomputes;
\* the others call the store from inside the pass
callHandler(s, h) ==
    LET s1 == Emit(s, [ev |-> "notify", who |-> h, st |-> s.state])
    IN  CASE h \in Connecteds -> onStoreOrPropsChange(s1, h, s1.comps[h].props)
          [] h = "hUnsubSelf" -> removeSubscriber(s1, h)
          [] h = "hUnsubOther" -> removeSubscriber(s1, "h1")
          [] h = "hSubscribe" ->
                IF s1.unsubs["hNew"].issued = 0
                THEN pushSubscriber(s1, "hNew") ELSE s1
          [] h = "hDispatch" ->
                IF s1.state.openNoteId # Null
                THEN callDispatch(s1, s1.dispatch, Obj(CLOSE_NOTE, NoPayload))
                ELSE s1
          [] OTHER -> s1

\* the pass that is running: the last one begun and not finished
CurrentPass(s) ==
    CHOOSE p \in DOMAIN s.passes :
        ~s.passes[p].done /\ \A q \in DOMAIN s.passes : q > p => s.passes[q].done

\* forEach reaches an index: the list as it is now, and the handler it finds
Turn(s, who) ==
    [s EXCEPT !.passes[CurrentPass(s)].turns =
                    Append(@, [live |-> s.subscribers, who |-> who])]

\* subscribers.forEach(handler => handler()): the indices 0..len-1 of the
\* list as it was when the pass began, skipping an index no longer present
RECURSIVE forEachFrom(_, _, _)
forEachFrom(s, k, len) ==
    IF k > len THEN s
    ELSE IF k > Len(s.subscribers)
    THEN Let(Turn(s, "none"), LAMBDA s1 : forEachFrom(s1, k + 1, len))
    ELSE Let(callHandler(Turn(s, s.subscribers[k]), s.subscribers[k]),
             LAMBDA s1 : forEachFrom(s1, k + 1, len))

forEach(s) ==
    Let([s EXCEPT !.passes = Append(@, [start |-> s.subscribers,
                                        turns |-> <<>>, done |-> FALSE])],
        LAMBDA s1 : [forEachFrom(s1, 1, Len(s1.subscribers))
                        EXCEPT !.passes[Len(s1.passes)].done = TRUE])

coreDispatch_notifyBeforeReduce(s, action) ==
    IF validateAction(action) THEN Throw(s, "Action must be an object")
    ELSE LET r == reducer(s.state, action)
             e == [ev |-> "reduce", act |-> action, st |-> s.state,
                   threw |-> r.threw]
         IN  IF r.threw
             THEN Throw([Emit(s, e) EXCEPT !.reducerThrew = TRUE], "TypeError")
             ELSE Return([forEach(Emit(s, e)) EXCEPT !.state = r.state],
                         Undefined)

coreDispatch_notifiesOnThrow(s, action) ==
    IF validateAction(action) THEN Throw(s, "Action must be an object")
    ELSE LET r == reducer(s.state, action)
             e == [ev |-> "reduce", act |-> action, st |-> s.state,
                   threw |-> r.threw]
         IN  IF r.threw
             THEN Throw(forEach([Emit(s, e) EXCEPT !.reducerThrew = TRUE]),
                        "TypeError")
             ELSE Return(forEach([Emit(s, e) EXCEPT !.state = r.state]),
                         Undefined)

coreDispatch(s, action) ==
    IF validateAction(action) THEN Throw(s, "Action must be an object")
    ELSE LET r == reducer(s.state, action)
             e == [ev |-> "reduce", act |-> action, st |-> s.state,
                   threw |-> r.threw]
         IN  IF r.threw
             THEN Throw([Emit(s, e) EXCEPT !.reducerThrew = TRUE], "TypeError")
             ELSE Return(forEach([Emit(s, e) EXCEPT !.state = r.state]),
                         Undefined)

(***************************************************************************)
(* Function values.  store.dispatch is one of                              *)
(*   coreDispatch                                                          *)
(*   the composition a(b(...(coreDispatch))) of a chain of middlewares,    *)
(*     each bound to the store API {dispatch, getState}                    *)
(*   next => action => ..., a middleware applied to one argument and       *)
(*     still waiting for `next`                                            *)
(***************************************************************************)
CoreDispatchFn == [kind |-> "coreDispatch", chain |-> <<>>]
ChainFn(chain) == [kind |-> "chain", chain |-> chain]
AwaitsNextFn(m) == [kind |-> "awaitsNext", chain |-> <<m>>]

\* bindMiddlewares.reduce((a, b) => next => a(b(next))): the chain in the
\* order in which control passes through it
Reversed(chain) == [i \in 1..Len(chain) |-> chain[Len(chain) + 1 - i]]

\* reduce of an empty array with no initial value raises a TypeError
compose_reversed(bindMiddlewares) ==
    IF Len(bindMiddlewares) = 0 THEN [kind |-> "throws", chain |-> <<>>]
    ELSE [kind |-> "composed", chain |-> Reversed(bindMiddlewares)]

compose(bindMiddlewares) ==
    IF Len(bindMiddlewares) = 0 THEN [kind |-> "throws", chain |-> <<>>]
    ELSE [kind |-> "composed", chain |-> bindMiddlewares]

\* applyMiddleware(...middlewares)(store): what the returned function is
applyMiddleware_noZeroCase(middlewares) ==
    IF Len(middlewares) = 1
    THEN [kind |-> "middleware", chain |-> middlewares]
    ELSE compose(middlewares)

applyMiddleware(middlewares) ==
    IF Len(middlewares) = 0 THEN [kind |-> "identity", chain |-> <<>>]
    ELSE IF Len(middlewares) = 1
    THEN [kind |-> "middleware", chain |-> middlewares]
    ELSE compose(middlewares)

\* middleware({dispatch, getState})(coreDispatch)
wrapDispatch(enhancer) ==
    CASE enhancer.kind = "identity" -> CoreDispatchFn
      [] enhancer.kind = "middleware" -> AwaitsNextFn(enhancer.chain[1])
      [] enhancer.kind = "composed" -> ChainFn(enhancer.chain)

(***************************************************************************)
(* Calling store.dispatch.  runChain(s, chain, i, action) is the action    *)
(* handler of the i-th middleware of the chain, whose `next` is the        *)
(* handler of the (i+1)-th, and coreDispatch after the last.  Each handler *)
(* records its entry (for logging: its 'before' and 'action' lines) and    *)
(* its normal return (for logging: its 'after' line).                      *)
(***************************************************************************)
RECURSIVE runChain(_, _, _, _), runThunk(_, _, _)

\* action({dispatch, getState}) for a dispatched function: it dispatches
\* its actions one after the other through store.dispatch
runThunk(s, fn, i) ==
    IF i > Len(fn.body) THEN Return(s, fn.ret)
    ELSE Let(callDispatch(s, s.dispatch, fn.body[i]),
             LAMBDA s1 : IF Thrown(s1) THEN s1 ELSE runThunk(s1, fn, i + 1))

thunkMiddleware_forwardsToo(s, chain, i, action) ==
    IF TypeOf(action) = "function"
    THEN LET s1 == runThunk(Emit(s, [ev |-> "call", who |-> "function",
                                      api |-> {"dispatch", "getState"}]),
                            action, 1)
         IN  IF Thrown(s1) THEN s1 ELSE runChain(s1, chain, i + 1, action)
    ELSE runChain(s, chain, i + 1, action)

thunkMiddleware(s, chain, i, action) ==
    IF TypeOf(action) = "function"
    THEN runThunk(Emit(s, [ev |-> "call", who |-> "function",
                           api |-> {"dispatch", "getState"}]),
                  action, 1)
    ELSE runChain(s, chain, i + 1, action)

\* setTimeout(() => next(action), 1000): the callback joins the pending
\* timers and the timer's id is returned
delayMiddleware_forwardsNow(s, chain, i, action) ==
    runChain(s, chain, i + 1, action)

delayMiddleware(s, chain, i, action) ==
    Return([s EXCEPT !.scheduled = @ + 1,
                     !.timers = Append(@, [id |-> s.scheduled + 1,
                                           chain |-> chain, i |-> i,
                                           action |-> action])],
           "timeoutID")

Info(s, label, v) == Emit(s, [ev |-> "console.info", label |-> label, v |-> v])

loggingMiddleware(s, chain, i, action) ==
    Let(runChain(Info(Info(s, "before", s.state), "action", action),
                 chain, i + 1, action),
        LAMBDA s1 : IF Thrown(s1) THEN s1
                    ELSE Return(Info(s1, "after", s1.state), s1.result.value))

runChain(s, chain, i, action) ==
    IF i > Len(chain) THEN coreDispatch(s, action)
    ELSE LET m == chain[i]
             s1 == Emit(s, [ev |-> "enter", who |-> m, act |-> action,
                            st |-> s.state])
         IN  Let(CASE m = "logging" -> loggingMiddleware(s1, chain, i, action)
                   [] m = "thunk" -> thunkMiddleware(s1, chain, i, action)
                   [] m = "delay" -> delayMiddleware(s1, chain, i, action),
                 LAMBDA s2 :
                    IF Thrown(s2) THEN s2
                    ELSE Emit(s2, [ev |-> "exit", who |-> m, st |-> s2.state,
                                   val |-> s2.result.value]))

callDispatch(s, fn, action) ==
    CASE fn.kind = "coreDispatch" -> coreDispatch(s, action)
      [] fn.kind = "chain" -> runChain(s, fn.chain, 1, action)
      [] fn.kind = "awaitsNext" -> Return(s, "function")

(***************************************************************************)
(* createStore and the store's API.                                        *)
(***************************************************************************)
NewComp == [phase |-> "new", props |-> "p0", state |-> <<>>]

NewClosure ==
    [middleware |-> NoMiddleware, created |-> FALSE,
     state |-> UndefinedState, subscribers |-> <<>>,
     dispatch |-> CoreDispatchFn,
     unsubs |-> [h \in Handlers |-> [issued |-> 0, called |-> 0]],
     comps |-> [c \in Connecteds |-> NewComp],
     call |-> [op |-> "createStore"], pre |-> UndefinedState,
     preSubscribers |-> <<>>,
     trace |-> <<>>, passes |-> <<>>,
     timers |-> <<>>, scheduled |-> 0, forwarded |-> <<>>,
     result |-> [kind |-> "return", value |-> Undefined],
     initCalls |-> 0, reducerThrew |-> FALSE]

InitAction == Obj(INIT, NoPayload)

\* the reducer invocations of the last call that carry the reserved type
InitReduces(s) ==
    Cardinality({i \in DOMAIN s.trace :
        /\ s.trace[i].ev = "reduce"
        /\ TypeProp(s.trace[i].act) = INIT})

\* The end of an API call.
End(s) == Let(s, LAMBDA s1 : [s1 EXCEPT !.initCalls = @ + InitReduces(s1)])

createStore_noInit(middleware) ==
    LET s0 == [NewClosure EXCEPT !.middleware = middleware]
        enhancer == applyMiddleware(middleware.list)
    IN  IF middleware.given /\ enhancer.kind = "throws"
        THEN Throw(s0, "TypeError")
        ELSE LET s1 == IF middleware.given
                       THEN [s0 EXCEPT !.dispatch = wrapDispatch(enhancer)]
                       ELSE s0
             IN  End(Return([s1 EXCEPT !.created = TRUE], "store"))

createStore(middleware) ==
    LET s0 == [NewClosure EXCEPT !.middleware = middleware]
        enhancer == applyMiddleware(middleware.list)
    IN  IF middleware.given /\ enhancer.kind = "throws"
        THEN Throw(s0, "TypeError")
        ELSE LET s1 == IF middleware.given
                       THEN [s0 EXCEPT !.dispatch = wrapDispatch(enhancer)]
                       ELSE s0
                 s2 == coreDispatch(s1, InitAction)
             IN  IF Thrown(s2) THEN s2
                 ELSE End(Return([s2 EXCEPT !.created = TRUE], "store"))

\* store.dispatch(action)
dispatch(s, action) ==
    End(callDispatch(Begin(s, [op |-> "dispatch", action |-> action]),
                     s.dispatch, action))

\* the callback of the oldest pending timer runs: () => next(action)
timerFires(s) ==
    LET t == Head(s.timers)
        s1 == [Begin(s, [op |-> "timer", id |-> t.id, action |-> t.action])
                    EXCEPT !.timers = Tail(@), !.forwarded = Append(@, t.id)]
    IN  End(runChain(s1, t.chain, t.i + 1, t.action))

\* store.subscribe(handler)
subscribe(s, handler) ==
    End(Return(pushSubscriber(Begin(s, [op |-> "subscribe",
                                        handler |-> handler]), handler),
               "function"))

\* the closure subscribe(handler) returned; `again` when this closure has
\* been called before
unsubscribe(s, handler, again) ==
    LET s1 == Begin(s, [op |-> "unsubscribe", handler |-> handler,
                        again |-> again])
        s2 == removeSubscriber(s1, handler)
    IN  End([s2 EXCEPT !.unsubs[handler].called =
                            IF again THEN @ ELSE @ + 1])

(***************************************************************************)
(* The lifecycle of a Connected instance.                                  *)
(***************************************************************************)
OwnProps == {"p0", "p1"}

\* componentWillMount
componentWillMount(s, c) ==
    LET s1 == Begin(s, [op |-> "componentWillMount", comp |-> c])
        s2 == onStoreOrPropsChange(s1, c, s1.comps[c].props)
    IN  End([s2 EXCEPT !.subscribers = Append(@, c),
                       !.unsubs[c].issued = @ + 1,
                       !.comps[c].phase = "mounted"])

\* componentWillReceiveProps(nextProps), after which nextProps are the props
componentWillReceiveProps(s, c, nextProps) ==
    LET s1 == Begin(s, [op |-> "componentWillReceiveProps", comp |-> c])
        s2 == onStoreOrPropsChange(s1, c, nextProps)
    IN  End([s2 EXCEPT !.comps[c].props = nextProps])

\* componentWillUnmount: this.unsubscribe()
componentWillUnmount(s, c) ==
    LET s1 == unsubscribe(s, c, FALSE)
    IN  [s1 EXCEPT !.comps[c].phase = "unmounted",
                   !.call = [op |-> "componentWillUnmount", comp |-> c]]

\* the action each handler of mapDispatchToProps dispatches
HandlerAction(name, id, content) ==
    CASE name = "onAddNote" -> Obj(CREATE_NOTE, NoPayload)
      [] name = "onChangeNote" -> Obj(UPDATE_NOTE, Payload(id, content))
      [] name = "onOpenNote" -> Obj(OPEN_NOTE, Payload(id, Undefined))
      [] name = "onCloseNote" -> Obj(CLOSE_NOTE, NoPayload)

(***************************************************************************)
(* The calls made on a store.                                              *)
(***************************************************************************)
\* createStore's second argument
Middlewares ==
    {NoMiddleware, Applied(<<>>), Applied(<<"logging">>), Applied(<<"thunk">>),
     Applied(<<"logging", "thunk">>), Applied(<<"thunk", "logging">>)}

\* the application's store
AppMiddleware == Applied(<<"logging", "thunk">>)

\* action objects: the documented shapes, one the reducer raises on, and
\* one of a type the reducer does not know
ObjectActions ==
    {Obj(CREATE_NOTE, Payload(Undefined, Undefined)),
     Obj(CREATE_NOTE, Payload("n1", Undefined)),
     Obj(CLOSE_NOTE, NoPayload),
     Obj(CREATE_NOTE, NoPayload),
     Obj("OTHER", NoPayload)}

\* null, undefined, primitives and arrays
InvalidActions ==
    {[kind |-> "null"], [kind |-> "undefined"], [kind |-> "array"],
     [kind |-> "number", falsy |-> FALSE], [kind |-> "string", falsy |-> TRUE]}

\* what a dispatched function dispatches
ThunkSteps ==
    {Obj(CREATE_NOTE, Payload("n1", Undefined)),
     Obj(CREATE_NOTE, NoPayload)}

Functions ==
    {[kind |-> "function", body |-> b, ret |-> "r"] :
        b \in SeqsUpTo(ThunkSteps, MaxThunkLen)}

Actions == ObjectActions \cup InvalidActions \cup Functions

\* the subscribe calls made so far
RECURSIVE SumIssued(_, _)
SumIssued(s, S) ==
    IF S = {} THEN 0
    ELSE LET h == CHOOSE x \in S : TRUE
         IN  s.unsubs[h].issued + SumIssued(s, S \ {h})

Subscribed(s) == SumIssued(s, Handlers)

Store == stores[1]

Init == \E m \in Middlewares : stores = <<createStore(m)>>

Created == \A i \in DOMAIN stores : stores[i].created

Dispatch(action) ==
    /\ Created
    /\ stores' = [i \in DOMAIN stores |-> dispatch(stores[i], action)]

Subscribe(h) ==
    /\ Created
    /\ Subscribed(Store) < MaxSubscribes
    /\ stores' = [i \in DOMAIN stores |-> subscribe(stores[i], h)]

Unsubscribe(h) ==
    /\ Created
    /\ Store.unsubs[h].called < Store.unsubs[h].issued
    /\ stores' = [i \in DOMAIN stores |-> unsubscribe(stores[i], h, FALSE)]

UnsubscribeAgain(h) ==
    /\ Created
    /\ Store.unsubs[h].called > 0
    /\ stores' = [i \in DOMAIN stores |-> unsubscribe(stores[i], h, TRUE)]

Next ==
    \/ \E a \in Actions : Dispatch(a)
    \/ \E h \in Listeners : Subscribe(h)
    \/ \E h \in Listeners : Unsubscribe(h)
    \/ \E h \in Listeners : UnsubscribeAgain(h)

Spec == Init /\ [][Next]_vars

(***************************************************************************)
(* Two stores receiving the same calls: one created with no middleware     *)
(* argument, one with applyMiddleware().                                   *)
(***************************************************************************)
InitEquiv ==
    stores = <<createStore(NoMiddleware), createStore(Applied(<<>>))>>

SpecEquiv == InitEquiv /\ [][Next]_vars

(***************************************************************************)
(* The application: its store, Connected instances mounted under the       *)
(* Provider, the events of the rendered components, and actions            *)
(* dispatched from elsewhere.                                              *)
(***************************************************************************)
NoteIds == {"n1"}
Contents == {"hello"}

InitConnect == stores = <<createStore(AppMiddleware)>>

Mount(c) ==
    /\ Created
    /\ Store.comps[c].phase = "new"
    /\ stores' = [i \in DOMAIN stores |-> componentWillMount(stores[i], c)]

ReceiveProps(c, p) ==
    /\ Store.comps[c].phase = "mounted"
    /\ Store.comps[c].props # p
    /\ stores' = [i \in DOMAIN stores |->
                    componentWillReceiveProps(stores[i], c, p)]

Unmount(c) ==
    /\ Store.comps[c].phase = "mounted"
    /\ stores' = [i \in DOMAIN stores |-> componentWillUnmount(stores[i], c)]

\* a handler found in the props of a rendered instance is called
UiEvent(c, name, id, content) ==
    /\ Store.comps[c].phase = "mounted"
    /\ name \in DOMAIN Store.comps[c].state
    /\ stores' = [i \in DOMAIN stores |->
                    dispatch(stores[i], HandlerAction(name, id, content))]

NextConnect ==
    \/ \E c \in Comps : Mount(c)
    \/ \E c \in Comps, p \in OwnProps : ReceiveProps(c, p)
    \/ \E c \in Comps : Unmount(c)
    \/ \E c \in Comps, id \in NoteIds, content \in Contents,
          name \in {"onAddNote", "onChangeNote", "onOpenNote", "onCloseNote"} :
            UiEvent(c, name, id, content)
    \/ \E a \in ObjectActions : Dispatch(a)

SpecConnect == InitConnect /\ [][NextConnect]_vars

(***************************************************************************)
(* Reading the record of the last call.                                    *)
(***************************************************************************)
\* the handlers notified in the last call, in order
Notified(s) ==
    LET n == SelectSeq(s.trace, LAMBDA e : e.ev = "notify")
    IN  [k \in DOMAIN n |-> n[k].who]

\* the places of the last call's trace where the reducer returned
Reduced(s) ==
    {i \in DOMAIN s.trace : s.trace[i].ev = "reduce" /\ ~s.trace[i].threw}

DispatchOf(s, kinds) ==
    s.call.op = "dispatch" /\ s.call.action.kind \in kinds

Enter(m, action, state) ==
    [ev |-> "enter", who |-> m, act |-> action, st |-> state]

(***************************************************************************)
(* C1: once the unsubscribe function of every subscribe(h) call has been   *)
(* called, no later dispatch invokes h, whatever place h held in the list. *)
(***************************************************************************)
C1_UnsubscribedHandlerNotInvoked ==
    \A n \in DOMAIN stores : \A h \in Handlers :
        LET s == stores[n]
        IN  (/\ s.call.op = "dispatch"
             /\ s.unsubs[h].issued > 0
             /\ s.unsubs[h].called = s.unsubs[h].issued)
            => \A k \in DOMAIN s.trace :
                   ~(s.trace[k].ev = "notify" /\ s.trace[k].who = h)

(***************************************************************************)
(* C2: each time the reducer returns inside a call, the subscribed         *)
(* handlers are invoked right after it, once each, in registration order,  *)
(* each seeing the state the reducer returned, and no handler is invoked   *)
(* at any other time; the pass is over when dispatch returns.              *)
(***************************************************************************)
PassAfter(s, i) ==
    LET n == Len(s.subscribers)
        new == reducer(s.trace[i].st, s.trace[i].act).state
    IN  /\ i + n <= Len(s.trace)
        /\ \A k \in 1..n :
              /\ s.trace[i + k].ev = "notify"
              /\ s.trace[i + k].who = s.subscribers[k]
              /\ s.trace[i + k].st = new
        /\ i + n < Len(s.trace) => s.trace[i + n + 1].ev # "notify"

C2_NotifiedOnceInOrderAfterReduce ==
    \A n \in DOMAIN stores :
        LET s == stores[n]
        IN  /\ \A i \in Reduced(s) : PassAfter(s, i)
            /\ Len(Notified(s)) = Cardinality(Reduced(s)) * Len(s.subscribers)
            /\ (DispatchOf(s, {"object"}) /\ Reduced(s) # {})
                  => /\ s.result.kind = "return"
                     /\ s.state = reducer(s.pre, s.call.action).state

C2_Witness ==
    /\ DispatchOf(Store, {"object"})
    /\ Store.middleware = AppMiddleware
    /\ Store.state # Store.pre
    /\ Notified(Store) = <<"h2", "h1">>

(***************************************************************************)
(* C3: in every store, dispatching null, undefined, a primitive or an      *)
(* array raises an error to the caller; the reducer is not invoked, the    *)
(* state is unchanged and no subscriber is notified.                       *)
(***************************************************************************)
C3_InvalidActionRaises ==
    \A n \in DOMAIN stores :
        LET s == stores[n]
        IN  DispatchOf(s, {"null", "undefined", "number", "string", "array"})
            => /\ s.result.kind = "throw"
               /\ \A k \in DOMAIN s.trace :
                      s.trace[k].ev \notin {"reduce", "notify"}
               /\ s.state = s.pre

(***************************************************************************)
(* C4: when the reducer throws, the call ends there with the error, the    *)
(* state is the one before the dispatch and no subscriber is notified for  *)
(* it; a valid dispatch made after such a failure replaces the state and   *)
(* notifies the subscribers as usual.                                      *)
(***************************************************************************)
C4_ReducerThrowLeavesState ==
    \A n \in DOMAIN stores :
        LET s == stores[n]
        IN  /\ \A i \in DOMAIN s.trace :
                  (s.trace[i].ev = "reduce" /\ s.trace[i].threw)
                  => /\ i = Len(s.trace)
                     /\ s.result.kind = "throw"
                     /\ s.state = s.trace[i].st
                     /\ DispatchOf(s, {"object"}) => s.state = s.pre
            /\ (/\ s.reducerThrew
                /\ DispatchOf(s, {"object"})
                /\ ~reducer(s.pre, s.call.action).threw)
               => /\ s.result.kind = "return"
                  /\ s.state = reducer(s.pre, s.call.action).state
                  /\ Notified(s) = s.subscribers

C4_Witness ==
    /\ DispatchOf(Store, {"object"})
    /\ Store.result.kind = "throw"
    /\ Store.trace # <<>>
    /\ Store.trace[Len(Store.trace)].ev = "reduce"
    /\ Store.pre # initialState
    /\ Len(Store.subscribers) = 2

(***************************************************************************)
(* C5: createStore invokes the reducer once with the reserved type on an   *)
(* undefined state, with or without middleware, so the state a new store   *)
(* shows is initialState; the store never invokes it with that type again. *)
(***************************************************************************)
C5_InitDispatchedOnce ==
    \A n \in DOMAIN stores :
        LET s == stores[n]
        IN  /\ s.created
            /\ s.initCalls = 1
            /\ s.state # UndefinedState
            /\ s.call.op = "createStore"
                  => /\ s.state = initialState
                     /\ s.trace = <<[ev |-> "reduce", act |-> InitAction,
                                     st |-> UndefinedState, threw |-> FALSE]>>

C5_Witness ==
    /\ Store.call.op = "createStore"
    /\ Store.middleware = AppMiddleware
    /\ Store.state = initialState
    /\ Store.initCalls = 1

(***************************************************************************)
(* C6: with applyMiddleware(A, B), A's handler sees the dispatched action  *)
(* first; when A forwards, B's handler sees it next; when B forwards, what *)
(* follows is coreDispatch (its validation, then the reducer on the state  *)
(* before the dispatch); A gets control back only after B has returned and *)
(* after every reducer call and notification, receives B's return value    *)
(* and sees the state the call leaves.                                     *)
(***************************************************************************)
\* whether m's handler calls next(action)
Forwards(m, action) == ~(m = "thunk" /\ TypeOf(action) = "function")

\* the lines a handler logs before and after calling next
Before(m) == IF m = "logging" THEN {"before", "action"} ELSE {}
After(m) == IF m = "logging" THEN {"after"} ELSE {}

InOrder(s, A, B) ==
    LET a == s.call.action
        tr == s.trace
        ib == 2 + Cardinality(Before(A))
        ic == ib + 1 + Cardinality(Before(B))
        oa == Len(tr)
        ob == oa - 1 - Cardinality(After(A))
    IN  /\ tr # <<>>
        /\ tr[1] = Enter(A, a, s.pre)
        /\ Forwards(A, a)
              => /\ Len(tr) >= ib
                 /\ tr[ib] = Enter(B, a, s.pre)
                 /\ \A k \in 2..(ib - 1) : tr[k].ev = "console.info"
        /\ (Forwards(A, a) /\ Forwards(B, a))
              => IF validateAction(a)
                 THEN /\ Len(tr) = ic - 1
                      /\ s.result = [kind |-> "throw",
                                     value |-> "Action must be an object"]
                 ELSE /\ Len(tr) >= ic
                      /\ tr[ic].ev = "reduce"
                      /\ tr[ic].act = a
                      /\ tr[ic].st = s.pre
        /\ (Forwards(A, a) /\ s.result.kind = "return")
              => /\ ob > ib
                 /\ tr[oa].ev = "exit" /\ tr[oa].who = A
                 /\ tr[ob].ev = "exit" /\ tr[ob].who = B
                 /\ tr[oa].val = tr[ob].val
                 /\ tr[oa].val = s.result.value
                 /\ tr[oa].st = s.state /\ tr[ob].st = s.state
                 /\ A = "logging" => tr[oa - 1].v = s.state
                 /\ \A k \in DOMAIN tr :
                        tr[k].ev \in {"reduce", "notify"} => k < ob
                 /\ a.kind = "object" => s.state = reducer(s.pre, a).state

C6_FirstListedIsOutermost ==
    \A n \in DOMAIN stores :
        LET s == stores[n]
        IN  (/\ s.middleware.given
             /\ Len(s.middleware.list) = 2
             /\ s.call.op = "dispatch")
            => InOrder(s, s.middleware.list[1], s.middleware.list[2])

C6_Witness ==
    /\ Store.middleware = AppMiddleware
    /\ DispatchOf(Store, {"object"})
    /\ Store.state # Store.pre
    /\ Store.result.kind = "return"
    /\ Len(Store.subscribers) = 2

(***************************************************************************)
(* C7: with applyMiddleware(m), store.dispatch(action) calls m's handler   *)
(* with the action, and a valid action then reaches the reducer and the    *)
(* subscribers.                                                            *)
(***************************************************************************)
C7_SingleMiddlewareHandles ==
    \A n \in DOMAIN stores :
        LET s == stores[n]
        IN  (/\ s.middleware.given
             /\ Len(s.middleware.list) = 1
             /\ DispatchOf(s, {"object"})
             /\ ~reducer(s.pre, s.call.action).threw)
            => /\ s.trace # <<>>
               /\ s.trace[1] = Enter(s.middleware.list[1], s.call.action, s.pre)
               /\ s.state = reducer(s.pre, s.call.action).state
               /\ Notified(s) = s.subscribers

(***************************************************************************)
(* C8: a store created with applyMiddleware() and a store created with no  *)
(* middleware argument, given the same calls, show the same state, the     *)
(* same subscriber list, the same events in the same order and the same    *)
(* results or errors after every call.                                     *)
(***************************************************************************)
Observable(s) ==
    [state |-> s.state, subscribers |-> s.subscribers, trace |-> s.trace,
     result |-> s.result, created |-> s.created]

C8_ZeroMiddlewaresIsNoMiddleware ==
    /\ Len(stores) = 2
    /\ stores[1].middleware = NoMiddleware
    /\ stores[2].middleware = Applied(<<>>)
    /\ Observable(stores[1]) = Observable(stores[2])

C8_Witness ==
    /\ Len(stores) = 2
    /\ DispatchOf(stores[2], {"object"})
    /\ stores[2].state # stores[2].pre
    /\ stores[2].reducerThrew
    /\ Notified(stores[2]) = <<"h1", "h2">>

(***************************************************************************)
(* C9: where the thunk middleware is installed, dispatching a function     *)
(* calls it once with {dispatch, getState}; the function is not handed to  *)
(* the middlewares after thunk nor to the reducer; the reducer runs only   *)
(* for the actions the function dispatches, so the state is the one they   *)
(* produce; dispatch returns what the function returns, or raises the      *)
(* error one of its dispatches raised.                                     *)
(***************************************************************************)
Place(chain, m) == CHOOSE i \in DOMAIN chain : chain[i] = m

\* the state after the function has dispatched body[i..], and whether one
\* of these dispatches raised
RECURSIVE AfterBody(_, _, _)
AfterBody(state, body, i) ==
    IF i > Len(body) THEN [state |-> state, threw |-> FALSE, done |-> i - 1]
    ELSE LET r == reducer(state, body[i])
         IN  IF validateAction(body[i]) \/ r.threw
             THEN [state |-> state, threw |-> TRUE, done |-> i - 1]
             ELSE AfterBody(r.state, body, i + 1)

FunctionCalled(s) ==
    LET f == s.call.action
        tr == s.trace
        chain == s.dispatch.chain
        end == AfterBody(s.pre, f.body, 1)
        reduces == SelectSeq(tr, LAMBDA e : e.ev = "reduce")
    IN  /\ Cardinality({k \in DOMAIN tr : tr[k].ev = "call"}) = 1
        /\ \A k \in DOMAIN tr :
              tr[k].ev = "call" => tr[k].api = {"dispatch", "getState"}
        /\ \A k \in DOMAIN tr :
              (tr[k].ev = "enter" /\ tr[k].act = f)
              => Place(chain, tr[k].who) <= Place(chain, "thunk")
        /\ \A k \in DOMAIN reduces :
              /\ reduces[k].act # f
              /\ reduces[k].act = f.body[k]
        /\ Cardinality(Reduced(s)) = end.done
        /\ Len(Notified(s)) = end.done * Len(s.subscribers)
        /\ s.state = end.state
        /\ s.result.kind = IF end.threw THEN "throw" ELSE "return"
        /\ ~end.threw => s.result.value = f.ret

C9_FunctionNeverReachesReducer ==
    \A n \in DOMAIN stores :
        LET s == stores[n]
        IN  (/\ s.dispatch.kind = "chain"
             /\ "thunk" \in Range(s.dispatch.chain)
             /\ DispatchOf(s, {"function"}))
            => FunctionCalled(s)

C9_Witness ==
    /\ Store.middleware = AppMiddleware
    /\ DispatchOf(Store, {"function"})
    /\ Len(Store.call.action.body) = 2
    /\ Store.state # Store.pre
    /\ Store.result = [kind |-> "return", value |-> "r"]
    /\ Len(Store.subscribers) = 2

(***************************************************************************)
(* C10: once a Connected instance is unmounted, its handler is not in the  *)
(* store's subscriber list and no dispatch makes it recompute its props.   *)
(***************************************************************************)
C10_UnmountedInstanceNotNotified ==
    \A n \in DOMAIN stores : \A c \in Comps :
        LET s == stores[n]
        IN  s.comps[c].phase = "unmounted"
            => /\ c \notin Range(s.subscribers)
               /\ \A k \in DOMAIN s.trace :
                      ~(s.trace[k].ev = "recompute" /\ s.trace[k].who = c)

(***************************************************************************)
(* The reducer on its own: a store without middleware that is sent every   *)
(* action of the documented shapes over two note ids, actions of unknown   *)
(* type and the payload-less CREATE_NOTE.  Every state made of these ids   *)
(* and contents is reached.                                                *)
(***************************************************************************)
ReducerIds == {"n1", "n2"}
ReducerContents == {"", "hello"}

DocumentedActions ==
    {Obj(CREATE_NOTE, Payload(Undefined, Undefined))}
    \cup {Obj(CREATE_NOTE, Payload(i, Undefined)) : i \in ReducerIds}
    \cup {Obj(UPDATE_NOTE, Payload(i, c)) : i \in ReducerIds, c \in ReducerContents}
    \cup {Obj(OPEN_NOTE, Payload(i, Undefined)) : i \in ReducerIds}
    \cup {Obj(CLOSE_NOTE, NoPayload)}

UnknownActions ==
    {Obj("OTHER", NoPayload), Obj("OTHER", Payload("n1", "hello")),
     Obj(Undefined, NoPayload), Obj(Undefined, Payload("n2", Undefined))}

ReducerActions ==
    DocumentedActions \cup UnknownActions \cup {Obj(CREATE_NOTE, NoPayload)}

InitReducer == stores = <<createStore(NoMiddleware)>>

NextReducer == \E a \in ReducerActions : Dispatch(a)

SpecReducer == InitReducer /\ [][NextReducer]_vars

\* the last call dispatched an action object of this type
Reducing(s, type) ==
    DispatchOf(s, {"object"}) /\ s.call.action.type = type

\* every entry of notes but the one under key is as it was before the call
OtherNotesKept(s, key) ==
    /\ DOMAIN s.state.notes \ {key} = DOMAIN s.pre.notes \ {key}
    /\ \A k \in DOMAIN s.pre.notes \ {key} : s.state.notes[k] = s.pre.notes[k]

(***************************************************************************)
(* C11: from every state, CREATE_NOTE with payload {} changes isLoading to *)
(* true and nothing else; CREATE_NOTE with payload {id: i}, i non-empty,   *)
(* yields notes[i] = {id: i, content: ''}, openNoteId = i, isLoading =     *)
(* false, and keeps every other entry of notes.                            *)
(***************************************************************************)
C11_CreateNote ==
    \A n \in DOMAIN stores :
        LET s == stores[n]
            p == s.call.action.payload
        IN  (Reducing(s, CREATE_NOTE) /\ p.has)
            => IF p.id = Undefined
               THEN s.state = [s.pre EXCEPT !.isLoading = TRUE]
               ELSE /\ s.state.notes[p.id] = [id |-> p.id, content |-> ""]
                    /\ s.state.openNoteId = p.id
                    /\ s.state.isLoading = FALSE
                    /\ OtherNotesKept(s, p.id)

C11_Witness ==
    /\ Reducing(Store, CREATE_NOTE)
    /\ Store.call.action.payload.id = "n2"
    /\ Store.pre.isLoading
    /\ Store.pre.openNoteId = "n1"
    /\ DOMAIN Store.pre.notes = {"n1"}
    /\ Store.pre.notes["n1"].content = "hello"
    /\ DOMAIN Store.state.notes = {"n1", "n2"}

(***************************************************************************)
(* C12: from every state in which note i exists, UPDATE_NOTE with payload  *)
(* {id: i, content: c} yields notes[i] = {id: i, content: c} and keeps     *)
(* every other note, openNoteId and isLoading.                             *)
(***************************************************************************)
C12_UpdateNote ==
    \A n \in DOMAIN stores :
        LET s == stores[n]
            p == s.call.action.payload
        IN  (Reducing(s, UPDATE_NOTE) /\ p.has /\ p.id \in DOMAIN s.pre.notes)
            => /\ s.state.notes[p.id] = [id |-> p.id, content |-> p.content]
               /\ OtherNotesKept(s, p.id)
               /\ s.state.openNoteId = s.pre.openNoteId
               /\ s.state.isLoading = s.pre.isLoading

(***************************************************************************)
(* C13: an action object whose type is none of the four leaves the state   *)
(* as it was before the dispatch, and the dispatch returns.                *)
(***************************************************************************)
C13_UnknownTypeIsIdentity ==
    \A n \in DOMAIN stores :
        LET s == stores[n]
        IN  (/\ DispatchOf(s, {"object"})
             /\ s.call.action.type
                    \notin {CREATE_NOTE, UPDATE_NOTE, OPEN_NOTE, CLOSE_NOTE})
            => /\ s.state = s.pre
               /\ s.result.kind = "return"
               /\ \A k \in DOMAIN s.trace :
                      s.trace[k].ev = "reduce" => ~s.trace[k].threw

C13_Witness ==
    /\ DispatchOf(Store, {"object"})
    /\ Store.call.action.type = Undefined
    /\ Store.pre.isLoading
    /\ Store.pre.openNoteId = "n2"
    /\ DOMAIN Store.pre.notes = {"n1", "n2"}
    /\ Store.state = Store.pre

(***************************************************************************)
(* Handlers that use the store during a notification pass: a store without *)
(* middleware on which plain and acting handlers are subscribed, in any    *)
(* order, and actions that open and close a note are dispatched.           *)
(***************************************************************************)
MaxPassLen == 3

PassHandlers == {"h1"} \cup Actors

PassActions ==
    {Obj(CREATE_NOTE, Payload("n1", Undefined)), Obj(CLOSE_NOTE, NoPayload)}

InitReentrant == stores = <<createStore(NoMiddleware)>>

SubscribeActor(h) ==
    /\ SumIssued(Store, PassHandlers) < MaxPassLen
    /\ stores' = [i \in DOMAIN stores |-> subscribe(stores[i], h)]

NextReentrant ==
    \/ \E a \in PassActions : Dispatch(a)
    \/ \E h \in PassHandlers : SubscribeActor(h)

SpecReentrant == InitReentrant /\ [][NextReentrant]_vars

\* how many times the pass invoked h
Invocations(pass, h) ==
    Cardinality({j \in DOMAIN pass.turns : pass.turns[j].who = h})

\* how many entries of the list are h
Entries(list, h) == Cardinality({j \in DOMAIN list : list[j] = h})

(***************************************************************************)
(* C14: in every finished notification pass, each handler that was in the  *)
(* subscriber list when the pass began and is in it when the pass reaches  *)
(* its place is invoked exactly once in that pass, whatever the handlers   *)
(* do to the store during the pass.                                        *)
(***************************************************************************)
C14_PassInvokesEachOnce ==
    \A n \in DOMAIN stores :
        \A p \in DOMAIN stores[n].passes :
            LET pass == stores[n].passes[p]
            IN  pass.done =>
                    \A k \in DOMAIN pass.start :
                        (/\ Entries(pass.start, pass.start[k]) = 1
                         /\ pass.start[k] \in Range(pass.turns[k].live))
                        => Invocations(pass, pass.start[k]) = 1

(***************************************************************************)
(* C15: in a store whose dispatch is a chain of middlewares, dispatching   *)
(* null, undefined, a primitive or an array raises the validation error    *)
(* before any middleware handler has been entered, has logged or has       *)
(* called anything.                                                        *)
(***************************************************************************)
C15_ValidatedBeforeMiddleware ==
    \A n \in DOMAIN stores :
        LET s == stores[n]
        IN  (/\ DispatchOf(s, {"null", "undefined", "number", "string", "array"})
             /\ s.dispatch.kind = "chain")
            => /\ s.result = [kind |-> "throw", value |-> "Action must be an object"]
               /\ \A k \in DOMAIN s.trace :
                      s.trace[k].ev \notin {"enter", "console.info", "call"}

(***************************************************************************)
(* The delay middleware in a chain.  Timers of equal delay fire in the     *)
(* order in which they were set; the event loop runs every due timer, so   *)
(* the firing of the oldest pending timer is weakly fair.                  *)
(***************************************************************************)
MaxDelayed == 3

DelayMiddlewares ==
    {Applied(<<"delay", "logging">>), Applied(<<"logging", "delay">>),
     Applied(<<"thunk", "delay">>)}

DelayActions ==
    {Obj(CREATE_NOTE, Payload(Undefined, Undefined)),
     Obj(CREATE_NOTE, Payload("n1", Undefined)),
     Obj(CLOSE_NOTE, NoPayload)}

InitDelay == \E m \in DelayMiddlewares : stores = <<createStore(m)>>

DispatchDelayed(action) ==
    /\ Store.scheduled < MaxDelayed
    /\ stores' = [i \in DOMAIN stores |-> dispatch(stores[i], action)]

TimerFires ==
    /\ Store.timers # <<>>
    /\ stores' = [i \in DOMAIN stores |-> timerFires(stores[i])]

\* one listener, there to be notified when a timer fires
SubscribeListener ==
    /\ Store.subscribers = <<>>
    /\ stores' = [i \in DOMAIN stores |-> subscribe(stores[i], "h1")]

NextDelay ==
    \/ \E a \in DelayActions : DispatchDelayed(a)
    \/ SubscribeListener
    \/ TimerFires

SpecDelay == InitDelay /\ [][NextDelay]_vars /\ WF_vars(TimerFires)

\* the ids of the timers still pending
Pending(s) == {s.timers[k].id : k \in DOMAIN s.timers}

\* dispatch returned with the action waiting on a timer: nothing after the
\* delay middleware has been entered, nothing reduced, nobody notified
ReturnsBeforeForwarding(s) ==
    DispatchOf(s, {"object"})
    => /\ s.result = [kind |-> "return", value |-> "timeoutID"]
       /\ s.state = s.pre
       /\ \A k \in DOMAIN s.trace :
              /\ s.trace[k].ev \notin {"reduce", "notify"}
              /\ s.trace[k].ev = "enter"
                 => Place(s.dispatch.chain, s.trace[k].who)
                        <= Place(s.dispatch.chain, "delay")
       /\ s.timers # <<>>
       /\ s.timers[Len(s.timers)] =
              [id |-> s.scheduled, chain |-> s.dispatch.chain,
               i |-> Place(s.dispatch.chain, "delay"), action |-> s.call.action]

\* a timer's callback passes its action to what follows the delay middleware
ForwardsToNext(s) ==
    s.call.op = "timer"
    => /\ s.trace # <<>>
       /\ s.trace[1].act = s.call.action
       /\ \/ s.trace[1].ev = "reduce"
                /\ Place(s.dispatch.chain, "delay") = Len(s.dispatch.chain)
          \/ s.trace[1].ev = "enter"
                /\ Place(s.dispatch.chain, s.trace[1].who)
                        = Place(s.dispatch.chain, "delay") + 1
       /\ Cardinality({k \in DOMAIN s.trace : s.trace[k].ev = "reduce"}) = 1

\* every timer set is pending or has fired, never both, and has fired once
AtMostOnce(s) ==
    /\ Pending(s) \cup Range(s.forwarded) = 1..s.scheduled
    /\ Pending(s) \cap Range(s.forwarded) = {}
    /\ Cardinality(Range(s.forwarded)) = Len(s.forwarded)

(***************************************************************************)
(* C16: with the delay middleware in the chain, dispatch returns with the  *)
(* state unchanged, no subscriber notified and the action not yet passed   *)
(* on; every delayed action is passed to next once and no more, and every  *)
(* timer set does fire.                                                    *)
(***************************************************************************)
C16_DelayedForwardedOnce ==
    /\ [](\A n \in DOMAIN stores :
            /\ ReturnsBeforeForwarding(stores[n])
            /\ ForwardsToNext(stores[n])
            /\ AtMostOnce(stores[n]))
    /\ \A id \in 1..MaxDelayed :
            (Store.scheduled >= id) ~> (id \in Range(Store.forwarded))

C16_Witness ==
    /\ Store.middleware = Applied(<<"delay", "logging">>)
    /\ Store.call.op = "timer"
    /\ Store.forwarded = <<1, 2>>
    /\ Pending(Store) = {3}
    /\ Store.subscribers = <<"h1">>
    /\ Notified(Store) = <<"h1">>
    /\ Store.state # Store.pre

(***************************************************************************)
(* Connected instances over the application's store: one made with the     *)
(* application's mapStateToProps and one made with a mapStateToProps whose  *)
(* keys depend on the state.                                               *)
(***************************************************************************)
SelectActions ==
    {Obj(CREATE_NOTE, Payload("n1", Undefined)),
     Obj(UPDATE_NOTE, Payload("n1", "hello")),
     Obj(CLOSE_NOTE, NoPayload)}

InitSelect == stores = <<createStore(AppMiddleware)>>

NextSelect ==
    \/ \E c \in {"c1"} \cup Selective : Mount(c)
    \/ \E c \in {"c1"} \cup Selective, p \in OwnProps : ReceiveProps(c, p)
    \/ \E a \in SelectActions : Dispatch(a)

SpecSelect == InitSelect /\ [][NextSelect]_vars

\* the notifications of c in the last call
NotifiedAt(s, c) ==
    {k \in DOMAIN s.trace : s.trace[k].ev = "notify" /\ s.trace[k].who = c}

\* the state the store held at the last of them
LastNotified(s, c) ==
    s.trace[CHOOSE k \in NotifiedAt(s, c) : \A j \in NotifiedAt(s, c) : j <= k].st

(***************************************************************************)
(* C17: after a call in which a mounted Connected instance was notified,   *)
(* the derived props it renders with are the merge of its mapStateToProps  *)
(* and mapDispatchToProps results for the state at that notification and   *)
(* its own props, with no key and no value of an earlier result left.      *)
(***************************************************************************)
C17_DerivedPropsAreLatestMerge ==
    \A n \in DOMAIN stores : \A c \in Connecteds :
        LET s == stores[n]
        IN  (s.comps[c].phase = "mounted" /\ NotifiedAt(s, c) # {})
            => /\ LastNotified(s, c) = s.state
               /\ s.comps[c].state =
                    Merge(StateToProps(c, s.state, s.comps[c].props),
                          mapDispatchToProps(s.dispatch, s.comps[c].props))

(***************************************************************************)
(* Subscribing and unsubscribing only: up to three subscriptions of two    *)
(* handlers, so that a handler can be in the list twice behind another.    *)
(***************************************************************************)
MaxDuplicates == 3

InitUnsubscribe == stores = <<createStore(NoMiddleware)>>

SubscribeMore(h) ==
    /\ Subscribed(Store) < MaxDuplicates
    /\ stores' = [i \in DOMAIN stores |-> subscribe(stores[i], h)]

NextUnsubscribe ==
    \/ \E h \in Listeners : SubscribeMore(h)
    \/ \E h \in Listeners : Unsubscribe(h)
    \/ \E h \in Listeners : UnsubscribeAgain(h)

SpecUnsubscribe == InitUnsubscribe /\ [][NextUnsubscribe]_vars

(***************************************************************************)
(* C18: calling an unsubscribe function that has been called before does   *)
(* not raise and leaves the subscriber list as it was, also when the       *)
(* handler is in the list more than once.                                  *)
(***************************************************************************)
C18_UnsubscribeIdempotent ==
    \A n \in DOMAIN stores :
        LET s == stores[n]
        IN  (s.call.op = "unsubscribe" /\ s.call.again)
            => /\ s.result.kind = "return"
               /\ s.subscribers = s.preSubscribers

(***************************************************************************)
(* The application: NoteAppContainer mounted under the store, and the      *)
(* handlers of its props called with every id and content.                 *)
(***************************************************************************)
HandlerNames == {"onAddNote", "onChangeNote", "onOpenNote", "onCloseNote"}

InitApp == stores = <<createStore(AppMiddleware)>>

NextApp ==
    \/ Mount("c1")
    \/ \E name \in HandlerNames, id \in ReducerIds, content \in ReducerContents :
            UiEvent("c1", name, id, content)

SpecApp == InitApp /\ [][NextApp]_vars

(***************************************************************************)
(* C19: every dispatch made by a handler of mapDispatchToProps returns     *)
(* without the reducer raising, and after onAddNote isLoading is true.     *)
(***************************************************************************)
C19_HandlersNeverRaise ==
    \A n \in DOMAIN stores :
        LET s == stores[n]
        IN  s.call.op = "dispatch"
            => /\ s.result.kind = "return"
               /\ \A k \in DOMAIN s.trace :
                      s.trace[k].ev = "reduce" => ~s.trace[k].threw
               /\ s.call.action = HandlerAction("onAddNote", Undefined, Undefined)
                      => s.state.isLoading

(***************************************************************************)
(* C20: in every state reached from the initial state by dispatching       *)
(* actions of the documented shapes, openNoteId is null or a key of notes  *)
(* and every notes[k] is a note {id, content} with id = k.                 *)
(***************************************************************************)
C20_StateWellFormed ==
    \A n \in DOMAIN stores :
        LET state == stores[n].state
        IN  /\ state.openNoteId = Null \/ state.openNoteId \in DOMAIN state.notes
            /\ \A k \in DOMAIN state.notes :
                  /\ state.notes[k].id = k
                  /\ state.notes[k].content \in ReducerContents

====
